---- MODULE Spec2Model ----
(***************************************************************************)
(* Model of vm/src/obj/objbuiltinfunc.rs: PyFuncDef, PyBuiltinFunction     *)
(* (builtin_function_or_method) and PyBuiltinMethod (method_descriptor),   *)
(* their builder steps, their Callable implementations and the descriptor  *)
(* protocol of PyBuiltinMethod (descr_get).                                *)
(*                                                                         *)
(* Object references are indices into heap.  Rust's Option<T> is a         *)
(* sequence of length at most one: <<>> is None, <<x>> is Some(x).         *)
(***************************************************************************)
EXTENDS Naturals, Sequences, FiniteSets

VARIABLES heap, cur, attrs, last, gcur, gheap

vars == <<heap, cur, attrs, last, gcur, gheap>>

\* ------------------------------------------------------------------ bounds

\* SpecBuild: objects the builder steps may allocate on top of the objects
\* present at start.
MaxObjs == 2

\* SpecDescr: wrappers built, and bound methods alive.
MaxWrappers == 1

MaxBound == 2

\* ------------------------------------------------------------- environment

None == <<>>

Some(x) == <<x>>

\* PyResult: Ok(object reference) or Err(exception).
Ok(v) == [ok |-> TRUE, val |-> v, exc |-> ""]

Err(e) == [ok |-> FALSE, val |-> 0, exc |-> e]

\* The classes of the embedding object model the accesses range over: two
\* unrelated classes C and D and the class of the none sentinel.  None of them
\* derives from another.
Classes == {"C", "D", "NoneType"}

\* issubclass(k, owner)
IsSubclass(k, owner) == k = owner

\* The objects that exist before any wrapper is built: the none sentinel, an
\* instance i of C, an instance j of D and a module object M.
InitHeap ==
  << [class |-> "NoneType"], [class |-> "C"], [class |-> "D"], [class |-> "module"] >>

NoneObj == CHOOSE o \in DOMAIN InitHeap : InitHeap[o].class = "NoneType"

Instances == {o \in DOMAIN InitHeap : InitHeap[o].class \in Classes}

Modules == {o \in DOMAIN InitHeap : InitHeap[o].class = "module"}

\* PyNativeFunc values: the native entry points.
Entries == {"len", "append"}

Names == {"append"}

Docs == {"return length"}

\* Runtime-context handles a caller may pass.
VMs == {"vm1", "vm2"}

InstI == CHOOSE o \in DOMAIN InitHeap : InitHeap[o].class = "C"

InstJ == CHOOSE o \in DOMAIN InitHeap : InitHeap[o].class = "D"

\* Argument bundles handed to a direct call, and to a call of a bound method.
ArgBundles == {<<>>, <<InstI>>, <<InstI, InstJ>>}

BoundArgs == {<<>>, <<InstJ>>}

\* What a native entry point returns for (vm, args): "len" takes one argument
\* and returns it, "append" takes two and returns the none sentinel; any other
\* arity is the entry point's own error.
NativeCall(func, vm, args) ==
  IF func = "len"
    THEN IF Len(args) = 1 THEN Ok(args[1]) ELSE Err("TypeError: len() arity")
    ELSE IF Len(args) = 2 THEN Ok(NoneObj) ELSE Err("TypeError: append() arity")

\* vm.is_none(obj)
is_none(obj) == obj = NoneObj

\* vm.unwrap_or_none(opt)
unwrap_or_none(opt) == IF opt = None THEN NoneObj ELSE opt[1]

\* obj.class()
class(h, obj) == h[obj].class

\* PyObject::new(payload, class, None): the object is allocated at a new index.
PyObject_new(h, payload, cls) == Append(h, [class |-> cls, payload |-> payload])

MethodDescriptors(h) == {o \in DOMAIN h : h[o].class = "method_descriptor"}

BuiltinFunctions(h) == {o \in DOMAIN h : h[o].class = "builtin_function_or_method"}

ClassMethods(h) == {o \in DOMAIN h : h[o].class = "classmethod"}

BoundMethods(h) == {o \in DOMAIN h : h[o].class = "method"}

Allocated(h) == Len(h) - Len(InitHeap)

\* What the most recent operation on an object was given, how many objects
\* existed when it started, what the native side was entered with during it
\* and what it returned.
NoLast == [op |-> "none", zelf |-> 0, obj |-> None, cls |-> None, args |-> <<>>,
           vm |-> "", nobjs |-> 0, entered |-> <<>>, result |-> Ok(0)]

\* --------------------------------------------------------------- PyFuncDef

\* impl From<PyNativeFunc> for PyFuncDef
PyFuncDef_from(func) == [func |-> func, name |-> None, doc |-> None]

\* PyFuncDef::with_doc: ctx.new_stringref(doc) is the string's reference.
with_doc(self, doc) == [self EXCEPT !.doc = Some(doc)]

\* impl From<PyFuncDef> for PyBuiltinFunction
PyBuiltinFunction_from(value) == [value |-> value, module |-> None]

\* PyFuncDef::into_function
into_function(self) == PyBuiltinFunction_from(self)

\* with_module that returns the wrapper without storing the module.
with_module_dropped(self, module) == self

\* PyBuiltinFunction::with_module
with_module(self, module) == [self EXCEPT !.module = Some(module)]

\* PyBuiltinFunction::build
build(h, self) == PyObject_new(h, self, "builtin_function_or_method")

\* PyFuncDef::build_function
build_function(h, self) == build(h, into_function(self))

\* impl From<PyFuncDef> for PyBuiltinMethod
PyBuiltinMethod_from(value) == [value |-> value]

\* PyFuncDef::build_method
build_method(h, self) == PyObject_new(h, PyBuiltinMethod_from(self), "method_descriptor")

\* PyClassMethod::from(callable)
PyClassMethod_from(callable) == [callable |-> callable]

\* build_classmethod that wraps the object allocated before the method
\* descriptor it has just built.
build_classmethod_stale(h, self) ==
  LET h1 == build_method(h, self)
  IN  PyObject_new(h1, PyClassMethod_from(Len(h)), "classmethod")

\* PyFuncDef::build_classmethod: the method descriptor is built first, then
\* the classmethod object that wraps it.
build_classmethod(h, self) ==
  LET h1 == build_method(h, self)
  IN  PyObject_new(h1, PyClassMethod_from(Len(h1)), "classmethod")

\* PyBuiltinMethod::new_with_name
new_with_name(func, name) == [value |-> [func |-> func, name |-> Some(name), doc |-> None]]

\* PyBuiltinFunction::as_func, PyBuiltinMethod::as_func
as_func(self) == self.value.func

\* ------------------------------------------------------------------- state

Init ==
  /\ heap = InitHeap
  /\ cur = None
  /\ attrs = [k \in Classes |-> {}]
  /\ last = NoLast
  /\ gcur = None
  /\ gheap = [o \in DOMAIN InitHeap |-> None]

Kind(k) == cur # None /\ cur[1].kind = k

\* ------------------------------------------------------------ construction

New_PyFuncDef ==
  \E func \in Entries :
    /\ cur = None
    /\ cur' = Some([kind |-> "PyFuncDef", v |-> PyFuncDef_from(func)])
    /\ gcur' = Some([entry |-> func, module |-> None])
    /\ last' = NoLast
    /\ UNCHANGED <<heap, attrs, gheap>>

With_doc ==
  \E doc \in Docs :
    /\ Kind("PyFuncDef")
    /\ cur' = Some([kind |-> "PyFuncDef", v |-> with_doc(cur[1].v, doc)])
    /\ last' = NoLast
    /\ UNCHANGED <<heap, attrs, gcur, gheap>>

Into_function ==
  /\ Kind("PyFuncDef")
  /\ cur' = Some([kind |-> "PyBuiltinFunction", v |-> into_function(cur[1].v)])
  /\ last' = NoLast
  /\ UNCHANGED <<heap, attrs, gcur, gheap>>

\* impl From<PyNativeFunc> for PyBuiltinFunction
New_PyBuiltinFunction ==
  \E func \in Entries :
    /\ cur = None
    /\ cur' = Some([kind |-> "PyBuiltinFunction",
                    v |-> PyBuiltinFunction_from(PyFuncDef_from(func))])
    /\ gcur' = Some([entry |-> func, module |-> None])
    /\ last' = NoLast
    /\ UNCHANGED <<heap, attrs, gheap>>

With_module ==
  \E module \in Modules :
    /\ Kind("PyBuiltinFunction")
    /\ cur' = Some([kind |-> "PyBuiltinFunction", v |-> with_module(cur[1].v, module)])
    /\ gcur' = Some([gcur[1] EXCEPT !.module = Some(module)])
    /\ last' = NoLast
    /\ UNCHANGED <<heap, attrs, gheap>>

Build ==
  /\ Kind("PyBuiltinFunction")
  /\ heap' = build(heap, cur[1].v)
  /\ gheap' = Append(gheap, gcur)
  /\ cur' = None
  /\ gcur' = None
  /\ last' = NoLast
  /\ UNCHANGED attrs

Build_function ==
  /\ Kind("PyFuncDef")
  /\ heap' = build_function(heap, cur[1].v)
  /\ gheap' = Append(gheap, gcur)
  /\ cur' = None
  /\ gcur' = None
  /\ last' = NoLast
  /\ UNCHANGED attrs

Build_method ==
  /\ Kind("PyFuncDef")
  /\ heap' = build_method(heap, cur[1].v)
  /\ gheap' = Append(gheap, gcur)
  /\ cur' = None
  /\ gcur' = None
  /\ last' = NoLast
  /\ UNCHANGED attrs

Build_classmethod ==
  /\ Kind("PyFuncDef")
  /\ heap' = build_classmethod(heap, cur[1].v)
  /\ gheap' = Append(Append(gheap, gcur), gcur)
  /\ cur' = None
  /\ gcur' = None
  /\ last' = NoLast
  /\ UNCHANGED attrs

New_with_name ==
  \E func \in Entries, name \in Names :
    /\ cur = None
    /\ cur' = Some([kind |-> "PyBuiltinMethod", v |-> new_with_name(func, name)])
    /\ gcur' = Some([entry |-> func, module |-> None])
    /\ last' = NoLast
    /\ UNCHANGED <<heap, attrs, gheap>>

\* A PyBuiltinMethod value becomes an object of the method_descriptor class.
Into_object ==
  /\ Kind("PyBuiltinMethod")
  /\ heap' = PyObject_new(heap, cur[1].v, "method_descriptor")
  /\ gheap' = Append(gheap, gcur)
  /\ cur' = None
  /\ gcur' = None
  /\ last' = NoLast
  /\ UNCHANGED attrs

\* ------------------------------------------------------------------ access

\* A builder value is a temporary of one bootstrap expression of the embedding
\* runtime; installs, accesses, calls and attribute reads are taken between
\* such expressions (cur = None).  Builder steps touch only the value in
\* flight, so this orders steps that commute.

\* The class whose attribute table holds descriptor d.
Owner(at, d) == CHOOSE k \in Classes : d \in at[k]

Installed(at) == UNION {at[k] : k \in Classes}

\* SlotDescriptor::_check, the descriptor-access validation helper shared by
\* the descriptor types: without an instance it short-circuits with the
\* descriptor itself, with an instance whose class is incompatible with the
\* descriptor's owner it short-circuits with the type-mismatch error, and
\* otherwise it resolves to (descriptor, instance).
_check(h, at, zelf, obj) ==
  IF obj = None
    THEN [short |-> TRUE, result |-> Ok(zelf), zelf |-> zelf, obj |-> 0]
    ELSE IF ~IsSubclass(class(h, obj[1]), Owner(at, zelf))
      THEN [short |-> TRUE, result |-> Err("TypeError: descriptor mismatch"),
            zelf |-> zelf, obj |-> 0]
      ELSE [short |-> FALSE, result |-> Ok(0), zelf |-> zelf, obj |-> obj[1]]

\* SlotDescriptor::_cls_is: cls is present and identical to other.
_cls_is(cls, other) == cls # None /\ cls[1] = other

\* ctx.new_bound_method(function, object): a new object of the bound-method
\* class pairing the two.
new_bound_method(h, function, object) ==
  PyObject_new(h, [function |-> function, object |-> object], "method")

\* descr_get with the arguments of new_bound_method swapped.
descr_get_swapped(h, at, zelf, obj, cls) ==
  LET c == _check(h, at, zelf, obj)
  IN  IF c.short
        THEN [heap |-> h, result |-> c.result]
        ELSE IF is_none(c.obj) /\ ~_cls_is(cls, class(h, c.obj))
          THEN [heap |-> h, result |-> Ok(c.zelf)]
          ELSE [heap |-> new_bound_method(h, c.obj, c.zelf),
                result |-> Ok(Len(h) + 1)]

\* descr_get that resolves its arguments by unwrapping an absent instance to
\* the none sentinel instead of calling _check.
descr_get_unwrap(h, at, zelf, obj, cls) ==
  LET o == unwrap_or_none(obj)
  IN  IF is_none(o) /\ ~_cls_is(cls, class(h, o))
        THEN [heap |-> h, result |-> Ok(zelf)]
        ELSE [heap |-> new_bound_method(h, zelf, o), result |-> Ok(Len(h) + 1)]

\* descr_get that drops the error of _check and binds the instance anyway.
descr_get_ignore_mismatch(h, at, zelf, obj, cls) ==
  LET c == _check(h, at, zelf, obj)
  IN  IF c.short /\ c.result.ok
        THEN [heap |-> h, result |-> c.result]
        ELSE IF ~c.short /\ is_none(c.obj) /\ ~_cls_is(cls, class(h, c.obj))
          THEN [heap |-> h, result |-> Ok(c.zelf)]
          ELSE [heap |-> new_bound_method(h, zelf, obj[1]),
                result |-> Ok(Len(h) + 1)]

\* descr_get without the comparison of cls with the instance's class.
descr_get_no_cls_test(h, at, zelf, obj, cls) ==
  LET c == _check(h, at, zelf, obj)
  IN  IF c.short
        THEN [heap |-> h, result |-> c.result]
        ELSE IF is_none(c.obj)
          THEN [heap |-> h, result |-> Ok(c.zelf)]
          ELSE [heap |-> new_bound_method(h, c.zelf, c.obj),
                result |-> Ok(Len(h) + 1)]

\* descr_get that returns the bound method of an earlier access to the same
\* (descriptor, instance) when there is one.
descr_get_cached(h, at, zelf, obj, cls) ==
  LET c == _check(h, at, zelf, obj)
      same == {m \in BoundMethods(h) :
                 h[m].payload = [function |-> c.zelf, object |-> c.obj]}
  IN  IF c.short
        THEN [heap |-> h, result |-> c.result]
        ELSE IF is_none(c.obj) /\ ~_cls_is(cls, class(h, c.obj))
          THEN [heap |-> h, result |-> Ok(c.zelf)]
          ELSE IF same # {}
            THEN [heap |-> h, result |-> Ok(CHOOSE m \in same : TRUE)]
            ELSE [heap |-> new_bound_method(h, c.zelf, c.obj),
                  result |-> Ok(Len(h) + 1)]

\* descr_get that binds in place: the descriptor object itself is turned into
\* the bound method.
descr_get_inplace(h, at, zelf, obj, cls) ==
  LET c == _check(h, at, zelf, obj)
  IN  IF c.short
        THEN [heap |-> h, result |-> c.result]
        ELSE IF is_none(c.obj) /\ ~_cls_is(cls, class(h, c.obj))
          THEN [heap |-> h, result |-> Ok(c.zelf)]
          ELSE [heap |-> [h EXCEPT ![c.zelf] =
                            [class |-> "method",
                             payload |-> [function |-> c.zelf, object |-> c.obj]]],
                result |-> Ok(c.zelf)]

\* descr_get with || in place of && in its test.
descr_get_or(h, at, zelf, obj, cls) ==
  LET c == _check(h, at, zelf, obj)
  IN  IF c.short
        THEN [heap |-> h, result |-> c.result]
        ELSE IF is_none(c.obj) \/ ~_cls_is(cls, class(h, c.obj))
          THEN [heap |-> h, result |-> Ok(c.zelf)]
          ELSE [heap |-> new_bound_method(h, c.zelf, c.obj),
                result |-> Ok(Len(h) + 1)]

\* impl SlotDescriptor for PyBuiltinMethod: descr_get.  The result is the
\* heap after the access and the PyResult returned.
descr_get(h, at, zelf, obj, cls) ==
  LET c == _check(h, at, zelf, obj)
  IN  IF c.short
        THEN [heap |-> h, result |-> c.result]
        ELSE IF is_none(c.obj) /\ ~_cls_is(cls, class(h, c.obj))
          THEN [heap |-> h, result |-> Ok(c.zelf)]
          ELSE [heap |-> new_bound_method(h, c.zelf, c.obj),
                result |-> Ok(Len(h) + 1)]

\* A call that swallows the entry point's error and returns the none sentinel.
PyBuiltinFunction_call_suppress(zelf, args, vm) ==
  LET r == NativeCall(zelf.value.func, vm, args)
  IN  [entered |-> <<[func |-> zelf.value.func, vm |-> vm, args |-> args]>>,
       result |-> IF r.ok THEN r ELSE Ok(NoneObj)]

\* impl Callable for PyBuiltinFunction: what the native side is entered with,
\* and the PyResult returned.
PyBuiltinFunction_call(zelf, args, vm) ==
  [entered |-> <<[func |-> zelf.value.func, vm |-> vm, args |-> args]>>,
   result |-> NativeCall(zelf.value.func, vm, args)]

\* impl Callable for PyBuiltinMethod
PyBuiltinMethod_call(zelf, args, vm) ==
  [entered |-> <<[func |-> zelf.value.func, vm |-> vm, args |-> args]>>,
   result |-> NativeCall(zelf.value.func, vm, args)]

\* PyBuiltinFunction::module, the __module__ property
module(self) == unwrap_or_none(self.module)

\* Class bootstrap installs a built method descriptor into one class's
\* attribute table.  D is the class that owns no method descriptor.
Install ==
  \E k \in Classes \ {"D"}, d \in MethodDescriptors(heap) :
    /\ cur = None
    /\ d \notin Installed(attrs)
    /\ attrs' = [attrs EXCEPT ![k] = @ \cup {d}]
    /\ last' = NoLast
    /\ UNCHANGED <<heap, cur, gcur, gheap>>

Descr_get ==
  \E zelf \in Installed(attrs), obj \in {None} \cup {Some(o) : o \in Instances},
     cls \in {None} \cup {Some(k) : k \in Classes} :
    LET r == descr_get(heap, attrs, zelf, obj, cls)
    IN  /\ cur = None
        /\ heap' = r.heap
        /\ gheap' = [o \in DOMAIN r.heap |-> IF o \in DOMAIN gheap THEN gheap[o] ELSE None]
        /\ last' = [op |-> "descr_get", zelf |-> zelf, obj |-> obj, cls |-> cls,
                    args |-> <<>>, vm |-> "", nobjs |-> Len(heap), entered |-> <<>>,
                    result |-> r.result]
        /\ UNCHANGED <<cur, attrs, gcur>>

Call_function ==
  \E zelf \in BuiltinFunctions(heap), args \in ArgBundles, vm \in VMs :
    LET r == PyBuiltinFunction_call(heap[zelf].payload, args, vm)
    IN  /\ cur = None
        /\ last' = [op |-> "call", zelf |-> zelf, obj |-> None, cls |-> None,
                    args |-> args, vm |-> vm, nobjs |-> Len(heap),
                    entered |-> r.entered, result |-> r.result]
        /\ UNCHANGED <<heap, cur, attrs, gcur, gheap>>

Call_method ==
  \E zelf \in MethodDescriptors(heap), args \in ArgBundles, vm \in VMs :
    LET r == PyBuiltinMethod_call(heap[zelf].payload, args, vm)
    IN  /\ cur = None
        /\ last' = [op |-> "call", zelf |-> zelf, obj |-> None, cls |-> None,
                    args |-> args, vm |-> vm, nobjs |-> Len(heap),
                    entered |-> r.entered, result |-> r.result]
        /\ UNCHANGED <<heap, cur, attrs, gcur, gheap>>

\* A bound method is invoked: its target is supplied as the first argument
\* and the method descriptor it pairs is called.
Call_bound ==
  \E m \in BoundMethods(heap), args \in BoundArgs, vm \in VMs :
    LET b == heap[m].payload
        r == PyBuiltinMethod_call(heap[b.function].payload, <<b.object>> \o args, vm)
    IN  /\ cur = None
        /\ last' = [op |-> "call_bound", zelf |-> m, obj |-> None, cls |-> None,
                    args |-> args, vm |-> vm, nobjs |-> Len(heap),
                    entered |-> r.entered, result |-> r.result]
        /\ UNCHANGED <<heap, cur, attrs, gcur, gheap>>

Get_module ==
  \E zelf \in BuiltinFunctions(heap) :
    /\ cur = None
    /\ last' = [op |-> "module", zelf |-> zelf, obj |-> None, cls |-> None,
                args |-> <<>>, vm |-> "", nobjs |-> Len(heap), entered |-> <<>>,
                result |-> Ok(module(heap[zelf].payload))]
    /\ UNCHANGED <<heap, cur, attrs, gcur, gheap>>

\* Builder steps and the calls and attribute reads on what they built.
BoundBuild == Allocated(heap) <= MaxObjs

NextBuild ==
  \/ New_PyFuncDef
  \/ With_doc
  \/ Into_function
  \/ New_PyBuiltinFunction
  \/ With_module
  \/ Build /\ BoundBuild'
  \/ Build_function /\ BoundBuild'
  \/ Build_method /\ BoundBuild'
  \/ Build_classmethod /\ BoundBuild'
  \/ New_with_name
  \/ Into_object /\ BoundBuild'
  \/ Call_function
  \/ Call_method
  \/ Get_module

SpecBuild == Init /\ [][NextBuild]_vars

\* The descriptor protocol: wrappers are built, method descriptors installed
\* into classes, accessed through instances and classes, and called.
BoundDescr ==
  /\ Cardinality(MethodDescriptors(heap) \cup BuiltinFunctions(heap)) <= MaxWrappers
  /\ Cardinality(BoundMethods(heap)) <= MaxBound

NextDescr ==
  \/ New_PyFuncDef
  \/ With_doc
  \/ Build_function /\ BoundDescr'
  \/ Build_method /\ BoundDescr'
  \/ Install
  \/ Descr_get /\ BoundDescr'
  \/ Call_function
  \/ Call_method
  \/ Call_bound

SpecDescr == Init /\ [][NextDescr]_vars

\* ------------------------------------------------------------------ claims

\* r is Ok(m) where m is a bound-method object.
IsBoundMethod(r) == r.ok /\ r.val \in DOMAIN heap /\ heap[r.val].class = "method"

\* r is Ok(m) where m is a bound-method object pairing descriptor d with target t.
IsBound(r, d, t) ==
  /\ IsBoundMethod(r)
  /\ heap[r.val].payload = [function |-> d, object |-> t]

\* The last operation allocated nothing.
NoAlloc == Len(heap) = last.nobjs

\* The last operation allocated exactly one object and returned it.
Fresh ==
  /\ Len(heap) = last.nobjs + 1
  /\ last.result.ok
  /\ last.result.val = Len(heap)

\* The entry point a wrapper object was built from.
EntryOf(o) == gheap[o][1].entry

\* The module recorded in g for function object o when it was built, as
\* __module__ is to report it.
ModuleOf(g, o) == IF g[o][1].module = None THEN NoneObj ELSE g[o][1].module[1]

\* C1: descr_get(d, Some(i), Some(C)) for d owned by C and i an instance of C
\* returns a bound method pairing that same d with i, and calling a bound
\* method enters the native entry point d was built from exactly as a direct
\* call of d does, with the target supplied as the first argument.
C1_BoundToInstance ==
  /\ ( /\ last.op = "descr_get"
       /\ last.obj # None
       /\ heap[last.obj[1]].class = Owner(attrs, last.zelf)
       /\ last.cls = Some(Owner(attrs, last.zelf)) )
     => IsBound(last.result, last.zelf, last.obj[1])
  /\ last.op = "call_bound"
     => LET b == heap[last.zelf].payload
        IN  /\ Len(last.entered) = 1
            /\ last.entered[1].func = EntryOf(b.function)
            /\ last.entered[1].args = <<b.object>> \o last.args
  /\ (last.op = "call" /\ last.zelf \in MethodDescriptors(heap))
     => /\ Len(last.entered) = 1
        /\ last.entered[1].func = EntryOf(last.zelf)

C1_Witness ==
  /\ last.op = "call_bound"
  /\ heap[last.zelf].payload.object = InstI
  /\ Owner(attrs, heap[last.zelf].payload.function) = "C"
  /\ last.entered = <<[func |-> "append", vm |-> last.vm, args |-> <<InstI, InstJ>>]>>
  /\ last.result.ok

\* C2: descr_get(d, None, Some(C)) for d owned by C returns d itself and
\* allocates no bound method.
C2_ClassAccessUnbound ==
  ( /\ last.op = "descr_get"
    /\ last.obj = None
    /\ last.cls = Some(Owner(attrs, last.zelf)) )
  => (last.result = Ok(last.zelf) /\ NoAlloc)

C2_Witness ==
  /\ last.op = "descr_get"
  /\ last.obj = None
  /\ last.cls = Some("NoneType")
  /\ Owner(attrs, last.zelf) = "NoneType"
  /\ last.result = Ok(last.zelf)

\* C3: descr_get(d, Some(j), Some(D)) for d owned by C and j an instance of an
\* unrelated class D fails with the type-mismatch error and allocates nothing,
\* and no bound method ever pairs a descriptor with such an instance.
C3_TypeMismatch ==
  /\ ( /\ last.op = "descr_get"
       /\ last.obj # None
       /\ heap[last.obj[1]].class # Owner(attrs, last.zelf)
       /\ last.cls = Some(heap[last.obj[1]].class) )
     => /\ ~last.result.ok
        /\ last.result.exc = "TypeError: descriptor mismatch"
        /\ NoAlloc
  /\ \A m \in BoundMethods(heap) :
       heap[heap[m].payload.object].class = Owner(attrs, heap[m].payload.function)

C3_Witness ==
  /\ last.op = "descr_get"
  /\ last.obj = Some(InstJ)
  /\ last.cls = Some("D")
  /\ Owner(attrs, last.zelf) = "C"
  /\ ~last.result.ok

C5_InvokeForwardsOnce ==
  [][ last'.op = "call"
      => /\ last'.entered = <<[func |-> EntryOf(last'.zelf), vm |-> last'.vm,
                               args |-> last'.args]>>
         /\ last'.result = NativeCall(EntryOf(last'.zelf), last'.vm, last'.args)
         /\ UNCHANGED <<heap, cur, attrs>> ]_vars

C5_Witness ==
  /\ last.op = "call"
  /\ last.zelf \in BuiltinFunctions(heap)
  /\ EntryOf(last.zelf) = "append"
  /\ last.args = <<InstI>>
  /\ last.result = Err("TypeError: append() arity")

\* C6: every access that returns a bound method returns an object that did
\* not exist before the access and pairs the descriptor with the instance, so
\* two accesses with the same descriptor and instance return two objects.
C6_FreshBoundMethod ==
  (last.op = "descr_get" /\ IsBoundMethod(last.result))
  => /\ Fresh
     /\ last.obj # None
     /\ IsBound(last.result, last.zelf, last.obj[1])

C6_Witness ==
  /\ last.op = "descr_get"
  /\ last.obj = Some(InstI)
  /\ IsBoundMethod(last.result)
  /\ \E m \in BoundMethods(heap) :
       /\ m # last.result.val
       /\ heap[m].payload = heap[last.result.val].payload

\* C7: no operation changes a method descriptor or a plain function once it
\* is an object: its entry point, name and doc (and module) stay as built.
C7_WrappersImmutable ==
  [][ \A o \in MethodDescriptors(heap) \cup BuiltinFunctions(heap) :
        o \in DOMAIN heap' /\ heap'[o] = heap[o] ]_vars

C7_Witness ==
  /\ last.op = "call_bound"
  /\ \E m \in BoundMethods(heap) :
       /\ heap[m].payload.function \in MethodDescriptors(heap)
       /\ heap[heap[m].payload.function].payload.value =
            [func |-> "len", name |-> None, doc |-> Some("return length")]

\* C8: __module__ of a plain function is the module attached by with_module,
\* or the none sentinel when none was attached, at every point after the
\* function is built, and a read of it returns that value.
C8_ModuleStable ==
  [][ /\ \A f \in BuiltinFunctions(heap') : module(heap'[f].payload) = ModuleOf(gheap', f)
      /\ \A f \in BuiltinFunctions(heap) :
           f \in BuiltinFunctions(heap') /\
           module(heap'[f].payload) = module(heap[f].payload)
      /\ last'.op = "module" => last'.result = Ok(ModuleOf(gheap', last'.zelf)) ]_vars

C8_Witness ==
  /\ last.op = "module"
  /\ last.result.val \in Modules
  /\ \E f \in BuiltinFunctions(heap) : module(heap[f].payload) = NoneObj

\* C9: the builder value in flight and every wrapper built hold the entry
\* point the definition was created from, and a classmethod wraps a method
\* descriptor holding it.
C9_EntryPreserved ==
  /\ cur # None
     => (IF cur[1].kind = "PyFuncDef" THEN cur[1].v.func ELSE as_func(cur[1].v))
          = gcur[1].entry
  /\ \A o \in MethodDescriptors(heap) \cup BuiltinFunctions(heap) :
       as_func(heap[o].payload) = EntryOf(o)
  /\ \A c \in ClassMethods(heap) :
       /\ heap[c].payload.callable \in MethodDescriptors(heap)
       /\ as_func(heap[heap[c].payload.callable].payload) = EntryOf(c)

C9_Witness ==
  \E c \in ClassMethods(heap) :
    /\ EntryOf(c) = "append"
    /\ heap[heap[c].payload.callable].payload.value.doc # None

\* C10: descr_get returns the result of _check unchanged and allocates
\* nothing when _check short-circuits; otherwise it returns the descriptor
\* itself, allocating nothing, exactly when the instance is the none sentinel
\* and cls is not the none sentinel's class; otherwise it returns a new bound
\* method pairing the descriptor with the instance.
C10_ThreeWay ==
  last.op = "descr_get"
  => LET c == _check(heap, attrs, last.zelf, last.obj)
     IN  IF c.short
           THEN last.result = c.result /\ NoAlloc
           ELSE IF c.obj = NoneObj /\ last.cls # Some(heap[NoneObj].class)
             THEN last.result = Ok(last.zelf) /\ NoAlloc
             ELSE IsBound(last.result, last.zelf, c.obj) /\ Fresh

C10_Witness ==
  /\ last.op = "descr_get"
  /\ last.obj = Some(NoneObj)
  /\ last.cls = None
  /\ last.result = Ok(last.zelf)

====
